---- MODULE Spec2Model ----
(***************************************************************************)
(* A model of the syncer core of cs_tools: the CSV and JSON file syncers   *)
(* (cs_tools/sync/csv/syncer.py, cs_tools/sync/json/syncer.py) and the     *)
(* chunking generator of cs_tools/utils.py.                                *)
(*                                                                         *)
(* Python values are records [k |-> type name, s |-> str(value)], so that  *)
(* the int 1 and the text "1" differ while their CSV field text is the     *)
(* same.  A dict is the sequence of its <<key, value>> items in insertion  *)
(* order.  A CSV file is the sequence of its lines, each line the sequence *)
(* of its field texts (the quoting, escaping and line terminators of the   *)
(* csv library are symmetric between csv.writer and csv.reader and are     *)
(* kept below this level).                                                 *)
(***************************************************************************)
EXTENDS Integers, Sequences, FiniteSets, TLC

\* ------------------------------------------------------------------ bounds
\* non-empty dump calls in one behaviour
MaxDumps == 3
\* the batch sizes read_stream is called with are 0..MaxBatch
MaxBatch == 2
\* length of the sequences chunks is called with
MaxSeqLen == 7
\* chunks is called with n in -1..MaxN
MaxN == 3
\* length of the sequences with repeated elements chunks is called with
MaxRepLen == 3
\* runs of the installer
MaxInstalls == 3
\* log files are named 1..MaxLogs, in name order
MaxLogs == 5
\* _rotate_logs is called with n_files_to_keep in 0..MaxKeep
MaxKeep == 3

\* ------------------------------------------------------------- Python values
Val(k, s) == [k |-> k, s |-> s]
StrV(s) == Val("str", s)
None == Val("none", "None")
ListV(items) == [k |-> "list", items |-> items]

\* a datetime with microseconds; str() of it and its rendering in the
\* date_time_format of the syncer differ
ADateTime == Val("datetime", "2024-01-01 00:00:00.500000")

strftime(v, dt_format) == "2024-01-01 00:00:00"

\* the date_time_format field of the CSV syncer
DATETIME_FORMAT_TSLOAD == "%Y-%m-%d %H:%M:%S"

\* dict helpers: a dict is a sequence of <<key, value>> items
Keys(d) == [i \in DOMAIN d |-> d[i][1]]
HasKey(d, key) == \E i \in DOMAIN d : d[i][1] = key
Get(d, key, default) ==
    IF HasKey(d, key) THEN d[CHOOSE i \in DOMAIN d : d[i][1] = key][2] ELSE default

\* d[key] = value: replaces the value in place, or inserts the item last
SetItem(d, key, value) ==
    IF HasKey(d, key)
    THEN [i \in DOMAIN d |-> IF d[i][1] = key THEN <<key, value>> ELSE d[i]]
    ELSE Append(d, <<key, value>>)

RECURSIVE Concat(_)
Concat(ss) == IF ss = <<>> THEN <<>> ELSE Head(ss) \o Concat(Tail(ss))

IsPrefix(s, t) == Len(s) <= Len(t) /\ SubSeq(t, 1, Len(s)) = s

\* ---------------------------------------------------------- utils.chunks
\* chunks is a generator function: calling it runs none of its body.  A
\* generator object is modelled by its arguments, the number of elements its
\* iterator has consumed (it), where it stands (pc: "created", "suspended" at a
\* yield, "raised", or "done" once it returned) and the groups yielded so far.
NewGen(seq, n) ==
    [seq |-> seq, n |-> n, it |-> 0, pc |-> "created", raised |-> "", yielded |-> <<>>]

\* faulty variant: the slice stops one element early
islice_one_short(seq, pos, n) ==
    SubSeq(seq, pos + 1, IF pos + n <= Len(seq) THEN pos + n - 1 ELSE Len(seq))

\* tuple(it.islice(iterable, n)) on an iterator that has consumed pos elements
islice(seq, pos, n) ==
    SubSeq(seq, pos + 1, IF pos + n <= Len(seq) THEN pos + n ELSE Len(seq))

\* faulty variant: only a negative n is rejected
n_is_invalid_negative(n) == n < 0

\* if n < 1: raise ValueError
n_is_invalid(n) == n < 1

\* faulty variant: a last group shorter than n is dropped
chunks_next_drops_short(g) ==
    IF g.pc = "created" /\ n_is_invalid(g.n)
    THEN [g EXCEPT !.pc = "raised", !.raised = "ValueError"]
    ELSE LET batch == islice(g.seq, g.it, g.n)
         IN  IF Len(batch) = g.n
             THEN [g EXCEPT !.pc = "suspended",
                            !.it = g.it + Len(batch),
                            !.yielded = Append(g.yielded, batch)]
             ELSE [g EXCEPT !.pc = "done", !.it = g.it + Len(batch)]

\* next(g) on a generator that is not finished: run to the next yield, to the
\* end of the loop, or to the raise
chunks_next(g) ==
    IF g.pc = "created" /\ n_is_invalid(g.n)
    THEN [g EXCEPT !.pc = "raised", !.raised = "ValueError"]
    ELSE LET batch == islice(g.seq, g.it, g.n)
         IN  IF batch # <<>>
             THEN [g EXCEPT !.pc = "suspended",
                            !.it = g.it + Len(batch),
                            !.yielded = Append(g.yielded, batch)]
             ELSE [g EXCEPT !.pc = "done", !.it = g.it + Len(batch)]

Finished(g) == g.pc \in {"raised", "done"}

\* the generator driven until it is exhausted or raises, as list(g), yield
\* from g and a for loop drive it
RECURSIVE exhaust(_)
exhaust(g) == IF Finished(g) THEN g ELSE exhaust(chunks_next(g))

\* list(chunks(seq, n=n)): the groups, and the exception raised if any
chunks(seq, n) ==
    LET g == exhaust(NewGen(seq, n))
    IN  [raised |-> g.raised, out |-> g.yielded]

\* ------------------------------------------------------------ the filesystem
\* a file: whether it exists, and its content.  The content of a .csv file is
\* the sequence of its lines; the text of a .json file is <<>> when empty and
\* <<rows>> when it is the JSON array json.dumps(rows) writes
Absent == [exists |-> FALSE, content |-> <<>>]
File(content) == [exists |-> TRUE, content |-> content]

Names == {"t", "u"}
Paths == Names \X {"csv", "json"}

\* ----------------------------------------------------------- the CSV syncer
\* self.directory.joinpath(f"{filename}.csv")
csv_path(filename) == <<filename, "csv">>

\* faulty variant: every dump appends
open_mode_always_append(save_strategy) == "a"

\* faulty variant: every dump truncates
open_mode_always_write(save_strategy) == "w"

\* mode = "a" if self.save_strategy == "APPEND" else "w"
open_mode(save_strategy) == IF save_strategy = "APPEND" THEN "a" ELSE "w"

\* path.open(mode=mode): what the file holds once opened for writing; "w"
\* creates or truncates, "a" creates or keeps
open_for_write(file, mode) ==
    IF mode = "a" /\ file.exists THEN file.content ELSE <<>>

\* the text csv.writer writes for a value: "" for None, str(value) otherwise
field_text(v) == IF v.k = "none" THEN "" ELSE v.s

\* sync_utils.format_datetime_values(r, dt_format=...): a copy of the record
\* with every datetime rendered as text in dt_format, the rest unchanged
format_datetime_values(r, dt_format) ==
    [i \in DOMAIN r |->
        IF r[i][2].k = "datetime"
        THEN <<r[i][1], StrV(strftime(r[i][2], dt_format))>>
        ELSE r[i]]

\* csv.DictWriter._dict_to_list: the fields of a row in fieldnames order,
\* restval "" for a missing key
dict_to_list(fieldnames, rowdict) ==
    [i \in DOMAIN fieldnames |-> field_text(Get(rowdict, fieldnames[i], StrV("")))]

\* writer.writeheader(): one line holding the field names
writeheader(fieldnames) ==
    << [i \in DOMAIN fieldnames |-> field_text(fieldnames[i])] >>

\* writer.writerows([format_datetime_values(r, ...) for r in data])
writerows(fieldnames, data, dt_format) ==
    [i \in DOMAIN data |->
        dict_to_list(fieldnames, format_datetime_values(data[i], dt_format))]

\* faulty variant: one flag for all names
written_header_get_any(wh, filename) == \E name \in DOMAIN wh : wh[name]

\* self._written_header.get(filename, False)
written_header_get(wh, filename) == wh[filename]

\* faulty variant: the header is written by every dump
emits_header_always(self, wh, filename) == self.header

\* if self.header and not self._written_header.get(filename, False)
emits_header(self, wh, filename) ==
    self.header /\ ~written_header_get(wh, filename)

\* faulty variant: the file is opened before the data is looked at
CSV_dump_no_data_opens(self, wh, fsys, filename) ==
    [fs |-> [fsys EXCEPT ![csv_path(filename)] =
                File(open_for_write(@, open_mode(self.save_strategy)))],
     written_header |-> wh, raised |-> "", wrote_header |-> FALSE]

\* if not data: log.warning(...); return
CSV_dump_no_data(self, wh, fsys, filename) ==
    [fs |-> fsys, written_header |-> wh, raised |-> "", wrote_header |-> FALSE]

\* CSV.dump(filename, data=data): the filesystem and the header map after the
\* call, the exception raised ("" for none) and whether writeheader() ran
CSV_dump(self, wh, fsys, filename, data) ==
    IF data = <<>>
    THEN CSV_dump_no_data(self, wh, fsys, filename)
    ELSE
        LET path == csv_path(filename)
            header == Keys(data[1])
            mode == open_mode(self.save_strategy)
            f == open_for_write(fsys[path], mode)
            emit == emits_header(self, wh, filename)
            head == IF emit THEN writeheader(header) ELSE <<>>
            body == writerows(header, data, self.date_time_format)
        IN  [fs |-> [fsys EXCEPT ![path] = File(f \o head \o body)],
             written_header |-> IF emit THEN [wh EXCEPT ![filename] = TRUE] ELSE wh,
             raised |-> "",
             wrote_header |-> emit]

\* dict(items): later items replace the value of an earlier equal key
RECURSIVE dict(_)
dict(items) ==
    IF items = <<>> THEN <<>>
    ELSE LET n == Len(items)
         IN  SetItem(dict(SubSeq(items, 1, n - 1)), items[n][1], items[n][2])

\* csv.DictReader.__next__ for one line: dict(zip(fieldnames, row)), the
\* surplus fields under restkey None, the missing ones set to restval None
DictReader_row(fieldnames, row) ==
    LET lf == Len(fieldnames)
        lr == Len(row)
        m == IF lf < lr THEN lf ELSE lr
        d == dict([i \in 1..m |-> <<StrV(fieldnames[i]), StrV(row[i])>>])
    IN  IF lf < lr
        THEN SetItem(d, None, ListV([i \in 1..(lr - lf) |-> StrV(row[lf + i])]))
        ELSE dict(d \o [i \in 1..(lf - lr) |-> <<StrV(fieldnames[lr + i]), None>>])

\* list(csv.DictReader(f)): the first line gives the field names, every later
\* non-blank line a record
DictReader(lines) ==
    IF lines = <<>> THEN <<>>
    ELSE LET fieldnames == Head(lines)
             rows == SelectSeq(Tail(lines), LAMBDA row : row # <<>>)
         IN  [i \in DOMAIN rows |-> DictReader_row(fieldnames, rows[i])]

\* CSV.load(filename)
CSV_load(self, fsys, filename) ==
    LET path == csv_path(filename)
    IN  IF ~fsys[path].exists
        THEN [ret |-> <<>>, raised |-> ""]
        ELSE [ret |-> DictReader(fsys[path].content), raised |-> ""]

\* list(CSV.read_stream(filename, batch=batch)): the batches produced
CSV_read_stream(self, fsys, filename, batch) ==
    LET path == csv_path(filename)
    IN  IF ~fsys[path].exists
        THEN [ret |-> <<>>, raised |-> ""]
        ELSE LET c == chunks(DictReader(fsys[path].content), batch)
             IN  [ret |-> c.out, raised |-> c.raised]

\* ---------------------------------------------------------- the JSON syncer
\* JSON.make_filename(filename)
make_filename(filename) == <<filename, "json">>

\* json.dumps raises TypeError on a value that is not JSON serializable
json_serializable(data) ==
    \A i \in DOMAIN data : \A j \in DOMAIN data[i] : data[i][j][2].k # "datetime"

json_dumps(data) == <<data>>
json_loads(text) == text[1]

\* JSON.load(filename)
JSON_load(self, fsys, filename) ==
    LET path == make_filename(filename)
    IN  IF ~fsys[path].exists
        THEN [ret |-> <<>>, raised |-> "FileNotFoundError"]
        ELSE LET text == fsys[path].content
             IN  [ret |-> IF text # <<>> THEN json_loads(text) ELSE <<>>,
                  raised |-> ""]

\* JSON.dump(filename, data=data)
JSON_dump(self, fsys, filename, data) ==
    IF data = <<>> THEN [fs |-> fsys, raised |-> ""]
    ELSE IF ~json_serializable(data) THEN [fs |-> fsys, raised |-> "TypeError"]
    ELSE [fs |-> [fsys EXCEPT ![make_filename(filename)] = File(json_dumps(data))],
          raised |-> ""]

\* ------------------------------------------------------------------ inputs
\* the rows the callers dump: text, a number, and a datetime next to text
RowText == << <<StrV("a"), StrV("x")>> >>
RowNumber == << <<StrV("a"), Val("int", "1")>> >>
RowDateTime == << <<StrV("a"), ADateTime>>, <<StrV("b"), StrV("y")>> >>

\* the non-empty data of a dump call: rows homogeneous in their keys
Batches == { <<RowText>>, <<RowNumber, RowText>>, <<RowDateTime>> }

\* the configurations a syncer is constructed with
CSVSyncers ==
    [ kind : {"csv"}, header : BOOLEAN, save_strategy : {"APPEND", "OVERWRITE"},
      date_time_format : {DATETIME_FORMAT_TSLOAD} ]
JSONSyncers == { [kind |-> "json"] }

\* what an earlier run may have left under the name "t"
LeftBehind(kind) ==
    IF kind = "csv"
    THEN { Absent, File(<< <<"a">>, <<"x">> >>) }
    ELSE { Absent, File(<<>>), File(json_dumps(<< << <<StrV("a"), StrV("x")>> >> >>)) }

range(k) == [i \in 1..k |-> i - 1]

\* the sequences chunks is called with
ChunkInputs ==
    { range(k) : k \in 0..MaxSeqLen } \cup UNION { [1..k -> {0, 1}] : k \in 0..MaxRepLen }

\* ------------------------------------------------------------------- state
VARIABLES
    syncer,          \* the syncer instance's validated configuration
    written_header,  \* CSV._written_header, as name -> .get(name, False)
    fs,              \* the files of the syncer's directory, by <<name, extension>>
    fs0,             \* history: the filesystem when the instance was constructed
    hist,            \* history: per name, the data of the non-empty dumps that returned
    last,            \* the last call made on the syncer and its outcome
    gen,             \* a generator object made by chunks(seq, n=n)
    dir,             \* what the configured directory path is on disk
    life,            \* history: non-empty dumps made by earlier instances
    io,              \* the load or dump call in progress, step by step
    ts,              \* a ThoughtSpot object
    cmd,             \* a run of a git-configuration command
    bag,             \* utils.State._state
    venv,            \* the installer's environment directory and its .save
    logs,            \* the entries of the logs directory
    exe              \* the scripts of the system executable directory

vars == <<syncer, written_header, fs, fs0, hist, last, gen, dir, life, io, ts, cmd,
          bag, venv, logs, exe>>

\* the parts of the state a syncer call leaves alone
aux == <<dir, life, io, ts, cmd, bag, venv, logs, exe>>

NoGen == NewGen(<<>>, 1)
NoCall == [pc |-> "idle"]
NoSession == [constructed |-> FALSE]
NoCommand == [pc |-> "idle"]
NoBag == <<>>
\* a directory that is not there; an environment directory made by the
\* n-th run of the installer, complete or partial
NoDir == [exists |-> FALSE, by |-> 0, complete |-> FALSE]
EnvDir(n, complete) == [exists |-> TRUE, by |-> n, complete |-> complete]
NoEnv == [env |-> NoDir, save |-> NoDir, runs |-> 0]
NoLogs == {}
NoExe == <<>>

\* the parts of the state a specification does not use
Unused(v) ==
    CASE v = "gen" -> gen = NoGen
      [] v = "dir" -> dir = "dir"
      [] v = "life" -> life = 0
      [] v = "io" -> io = NoCall
      [] v = "ts" -> ts = NoSession
      [] v = "cmd" -> cmd = NoCommand
      [] v = "bag" -> bag = NoBag

\* nothing of the installer or of the logs directory is in play
HostIdle == venv = NoEnv /\ logs = NoLogs /\ exe = NoExe

AuxIdle ==
    /\ \A v \in {"dir", "life", "io", "ts", "cmd", "bag"} : Unused(v)
    /\ HostIdle

Init ==
    /\ syncer \in CSVSyncers \cup JSONSyncers
    /\ written_header = [name \in Names |-> FALSE]
    /\ \E left \in LeftBehind(syncer.kind) :
          fs = [p \in Paths |-> IF p = <<"t", syncer.kind>> THEN left ELSE Absent]
    /\ fs0 = fs
    /\ hist = [name \in Names |-> <<>>]
    /\ last = [op |-> "none"]
    /\ gen = NoGen
    /\ AuxIdle

TotalDumps == Len(hist["t"]) + Len(hist["u"])

\* one call of CSV.dump
CSVDump(filename, data) ==
    /\ syncer.kind = "csv"
    /\ data # <<>> => life + TotalDumps < MaxDumps
    /\ LET r == CSV_dump(syncer, written_header, fs, filename, data)
       IN  /\ fs' = r.fs
           /\ written_header' = r.written_header
           /\ hist' = IF data # <<>> /\ r.raised = ""
                      THEN [hist EXCEPT ![filename] = Append(@, data)] ELSE hist
           /\ last' = [op |-> "dump", name |-> filename, data |-> data,
                       raised |-> r.raised, wrote_header |-> r.wrote_header]
    /\ UNCHANGED <<syncer, fs0, gen>>
    /\ UNCHANGED aux

\* one call of CSV.load
CSVLoad(filename) ==
    /\ syncer.kind = "csv"
    /\ LET r == CSV_load(syncer, fs, filename)
       IN  last' = [op |-> "load", name |-> filename, ret |-> r.ret, raised |-> r.raised]
    /\ UNCHANGED <<syncer, written_header, fs, fs0, hist, gen>>
    /\ UNCHANGED aux

\* one call of CSV.read_stream, its generator consumed to the end
CSVReadStream(filename, batch) ==
    /\ syncer.kind = "csv"
    /\ LET r == CSV_read_stream(syncer, fs, filename, batch)
       IN  last' = [op |-> "read_stream", name |-> filename, n |-> batch,
                    ret |-> r.ret, raised |-> r.raised]
    /\ UNCHANGED <<syncer, written_header, fs, fs0, hist, gen>>
    /\ UNCHANGED aux

\* one call of JSON.dump
JSONDump(filename, data) ==
    /\ syncer.kind = "json"
    /\ data # <<>> => life + TotalDumps < MaxDumps
    /\ LET r == JSON_dump(syncer, fs, filename, data)
       IN  /\ fs' = r.fs
           /\ hist' = IF data # <<>> /\ r.raised = ""
                      THEN [hist EXCEPT ![filename] = Append(@, data)] ELSE hist
           /\ last' = [op |-> "dump", name |-> filename, data |-> data,
                       raised |-> r.raised, wrote_header |-> FALSE]
    /\ UNCHANGED <<syncer, written_header, fs0, gen>>
    /\ UNCHANGED aux

\* one call of JSON.load
JSONLoad(filename) ==
    /\ syncer.kind = "json"
    /\ LET r == JSON_load(syncer, fs, filename)
       IN  last' = [op |-> "load", name |-> filename, ret |-> r.ret, raised |-> r.raised]
    /\ UNCHANGED <<syncer, written_header, fs, fs0, hist, gen>>
    /\ UNCHANGED aux

Next ==
    \E filename \in Names :
        \/ \E data \in Batches \cup {<<>>} : CSVDump(filename, data)
        \/ CSVLoad(filename)
        \/ \E batch \in 0..MaxBatch : CSVReadStream(filename, batch)
        \/ \E data \in Batches \cup {<<>>} : JSONDump(filename, data)
        \/ JSONLoad(filename)

Spec == Init /\ [][Next]_vars

\* ------------------------------------------------- the chunks generator alone
InitChunks ==
    /\ syncer = [kind |-> "json"]
    /\ written_header = [name \in Names |-> FALSE]
    /\ fs = [p \in Paths |-> Absent]
    /\ fs0 = fs
    /\ hist = [name \in Names |-> <<>>]
    /\ last = [op |-> "none"]
    /\ AuxIdle
    /\ \E seq \in ChunkInputs, n \in (-1)..MaxN : gen = NewGen(seq, n)

\* next(gen)
ChunksNext ==
    /\ ~Finished(gen)
    /\ gen' = chunks_next(gen)
    /\ UNCHANGED <<syncer, written_header, fs, fs0, hist, last>>
    /\ UNCHANGED aux

NextChunks == ChunksNext

SpecChunks == InitChunks /\ [][NextChunks]_vars

\* ---------------------------------------------------------------- claims
IsCSV == syncer.kind = "csv"

\* the line a record is stored as: its values as text in key order, a
\* datetime in the canonical format
ExpectedText(v) ==
    IF v.k = "datetime" THEN strftime(v, DATETIME_FORMAT_TSLOAD) ELSE v.s
ExpectedLine(row) == [i \in DOMAIN row |-> ExpectedText(row[i][2])]
ExpectedLines(data) == [i \in DOMAIN data |-> ExpectedLine(data[i])]
\* the header line of a call: its column names in first-seen order
ExpectedHeader(data) == [i \in DOMAIN data[1] |-> data[1][i][1].s]
Last(s) == s[Len(s)]

\* C1: CSV, APPEND, header=true, no file for the name when the instance was
\* constructed: after two or more non-empty dumps of the name the file is the
\* header line once, first, then the records of every call in call order.
C1_AppendWritesHeaderOnceThenAllRecords ==
    \A name \in Names :
        ( /\ IsCSV /\ syncer.save_strategy = "APPEND" /\ syncer.header
          /\ ~fs0[csv_path(name)].exists
          /\ Len(hist[name]) >= 2 )
        => fs[csv_path(name)] =
              File(<<ExpectedHeader(hist[name][1])>>
                   \o Concat([i \in DOMAIN hist[name] |-> ExpectedLines(hist[name][i])]))

C1_Witness ==
    /\ IsCSV /\ syncer.save_strategy = "APPEND" /\ syncer.header
    /\ ~fs0[csv_path("t")].exists
    /\ hist["t"] = << <<RowNumber, RowText>>, <<RowText>> >>
    /\ last.op = "dump" /\ last.name = "t"
    /\ fs[csv_path("t")].content = << <<"a">>, <<"1">>, <<"x">>, <<"x">> >>

\* C2: CSV, OVERWRITE: after any non-empty dumps of a name the file holds the
\* records of the last of them and of no earlier one (before them, the header
\* line if that call emitted it).
C2_OverwriteKeepsOnlyLastDump ==
    \A name \in Names :
        (IsCSV /\ syncer.save_strategy = "OVERWRITE" /\ hist[name] # <<>>)
        => fs[csv_path(name)] =
              File((IF syncer.header /\ Len(hist[name]) = 1
                    THEN <<ExpectedHeader(hist[name][1])>> ELSE <<>>)
                   \o ExpectedLines(Last(hist[name])))

C2_Witness ==
    /\ IsCSV /\ syncer.save_strategy = "OVERWRITE"
    /\ hist["t"] = << <<RowNumber, RowText>>, <<RowDateTime>> >>
    /\ last.op = "dump" /\ last.name = "t"
    /\ fs[csv_path("t")].content = << <<"2024-01-01 00:00:00", "y">> >>

\* C3: CSV, header=true, OVERWRITE: a load of a name after a non-empty dump of
\* it returns as many records as were dumped, each with the same keys in the
\* same order and values whose text is the text of the originals (a datetime
\* its formatted text).
C3_RoundTrip ==
    ( /\ IsCSV /\ syncer.header /\ syncer.save_strategy = "OVERWRITE"
      /\ last.op = "load" /\ hist[last.name] # <<>> )
    => LET rows == Last(hist[last.name])
       IN  /\ last.raised = ""
           /\ Len(last.ret) = Len(rows)
           /\ \A i \in DOMAIN rows :
                 /\ Keys(last.ret[i]) = Keys(rows[i])
                 /\ \A j \in DOMAIN rows[i] :
                       last.ret[i][j][2] = StrV(ExpectedText(rows[i][j][2]))

\* C4: every backend: a load of a name whose file does not exist returns an
\* empty sequence and raises nothing.
C4_LoadOfMissingIsEmpty ==
    (last.op = "load" /\ ~fs[<<last.name, syncer.kind>>].exists)
    => (last.raised = "" /\ last.ret = <<>>)

\* C5: every backend: a dump of no rows raises nothing and changes neither
\* the filesystem nor the header-written map.
C5_EmptyDumpIsNoOp ==
    [][ (last'.op = "dump" /\ last'.data = <<>>)
        => (fs' = fs /\ written_header' = written_header /\ last'.raised = "") ]_vars

C5_Witness ==
    /\ last.op = "dump" /\ last.data = <<>> /\ last.name = "t"
    /\ fs[<<"t", syncer.kind>>].exists /\ fs[<<"t", syncer.kind>>].content # <<>>
    /\ ~fs[<<"u", syncer.kind>>].exists

\* C6: CSV: a dump emits the header row exactly when header=true and it is
\* the first non-empty dump of its name through the instance, whatever was
\* dumped to other names; with header=false no dump emits it.
C6_HeaderEmittedByFirstDumpOnly ==
    (IsCSV /\ last.op = "dump")
    => ( last.wrote_header
           <=> (syncer.header /\ last.data # <<>> /\ Len(hist[last.name]) = 1) )

C6_Witness ==
    /\ IsCSV /\ syncer.header /\ last.op = "dump" /\ last.name = "u"
    /\ last.data # <<>> /\ last.wrote_header
    /\ Len(hist["t"]) = 2 /\ Len(hist["u"]) = 1

\* C7: CSV, APPEND: no step truncates a file: what a file held before a step
\* is a prefix of what it holds after it, whoever wrote it.
C7_AppendNeverTruncates ==
    [][ \A name \in Names :
          (IsCSV /\ syncer.save_strategy = "APPEND" /\ fs[csv_path(name)].exists)
          => ( /\ fs'[csv_path(name)].exists
               /\ IsPrefix(fs[csv_path(name)].content, fs'[csv_path(name)].content) ) ]_vars

C7_Witness ==
    /\ IsCSV /\ syncer.save_strategy = "APPEND"
    /\ fs0[csv_path("t")].exists
    /\ last.op = "dump" /\ last.name = "t" /\ last.data # <<>>
    /\ Len(fs[csv_path("t")].content) > Len(fs0[csv_path("t")].content)
    /\ IsPrefix(fs0[csv_path("t")].content, fs[csv_path("t")].content)

\* C8: CSV: the batches of read_stream(name, batch), batch >= 1, concatenated
\* in order are the records load(name) returns, every batch but the last
\* holding batch records; a missing file produces no batch.
C8_ReadStreamIsLoadInBatches ==
    (IsCSV /\ last.op = "read_stream" /\ last.n >= 1)
    => /\ last.raised = ""
       /\ Concat(last.ret) = CSV_load(syncer, fs, last.name).ret
       /\ \A i \in DOMAIN last.ret :
             /\ Len(last.ret[i]) >= 1
             /\ Len(last.ret[i]) <= last.n
             /\ i < Len(last.ret) => Len(last.ret[i]) = last.n
       /\ ~fs[csv_path(last.name)].exists => last.ret = <<>>

C8_Witness ==
    /\ IsCSV /\ last.op = "read_stream" /\ last.n = 2
    /\ Len(last.ret) = 2 /\ Len(last.ret[1]) = 2 /\ Len(last.ret[2]) = 1

\* C9: chunks(seq, n), n >= 1: the groups yielded, concatenated in order, are
\* the elements consumed so far, and all of seq once the generator is done;
\* every group but the last has n elements, the last between 1 and n; an
\* empty seq yields no group.
C9_ChunksPartitionInOrder ==
    gen.n >= 1
    => /\ gen.raised = ""
       /\ Concat(gen.yielded) = SubSeq(gen.seq, 1, gen.it)
       /\ gen.pc = "done" => Concat(gen.yielded) = gen.seq
       /\ \A i \in DOMAIN gen.yielded :
             /\ Len(gen.yielded[i]) >= 1
             /\ Len(gen.yielded[i]) <= gen.n
             /\ i < Len(gen.yielded) => Len(gen.yielded[i]) = gen.n
       /\ gen.seq = <<>> => gen.yielded = <<>>

C9_Witness ==
    /\ gen.seq = range(7) /\ gen.n = 3 /\ gen.pc = "done"
    /\ gen.yielded = << <<0, 1, 2>>, <<3, 4, 5>>, <<6>> >>

\* C10: chunks(seq, n), n < 1: the generator yields no group and consumes no
\* element, and once advanced it has raised ValueError.
C10_ChunksRejectsInvalidN ==
    gen.n < 1
    => /\ gen.yielded = <<>>
       /\ gen.it = 0
       /\ gen.pc \in {"created", "raised"}
       /\ gen.pc = "raised" <=> gen.raised = "ValueError"

C10_Witness ==
    /\ gen.n = 0 /\ gen.seq = range(7)
    /\ gen.pc = "raised" /\ gen.raised = "ValueError"

\* ---------------------------------------------------------------------
\* Construction of a syncer (pydantic validation of the options)
\* ---------------------------------------------------------------------

\* What the configured directory path is on disk:
\*   "dir"    an existing directory
\*   "file"   an existing plain file
\*   "new"    nothing there, the parent directory exists
\*   "orphan" nothing there, and no parent directory either
DirStates == {"dir", "file", "new", "orphan"}

is_file(d) == d = "file"
exists(d) == d \in {"dir", "file"}

\* pydantic.DirectoryPath: the path must be an existing directory
DirectoryPath(d) == d = "dir"
\* pydantic.NewPath: the path must not exist and its parent must exist
NewPath(d) == ~exists(d) /\ d # "orphan"
\* Union[pydantic.DirectoryPath, pydantic.NewPath]
directory_type(d) == DirectoryPath(d) \/ NewPath(d)

\* pathlib.Path.mkdir(parents=True, exist_ok=True)
mkdir(d) == IF d = "file" THEN [raised |-> "FileExistsError", dir |-> d]
            ELSE [raised |-> "", dir |-> "dir"]

\* A str option is a sequence of characters here, so that it has a length.
Characters == { <<>>, <<"|">>, <<"|", "|">> }

\* CSV._only_single_characters_allowed: TRUE when it raises ValueError
only_single_characters_rejects(value) == Len(value) > 1

\* CSV._map_to_csv_literals
map_to_csv_literals(value) ==
    CASE value = "ALL" -> "QUOTE_ALL"
      [] value = "MINIMAL" -> "QUOTE_MINIMAL"
      [] OTHER -> "None"

\* A field of the model fails when its type does not validate or, the type
\* being valid, when its mode="after" validator raises.  Every field is
\* validated, in declaration order, and the failures are collected.
CSV_field_errors(d, args) ==
    (IF directory_type(d) THEN <<>> ELSE <<"directory">>)
    \o (IF only_single_characters_rejects(args.delimiter)
        THEN <<"delimiter">> ELSE <<>>)
    \o (IF only_single_characters_rejects(args.escape_character)
        THEN <<"escape_character">> ELSE <<>>)
    \o (IF args.quoting \in {"ALL", "MINIMAL"} THEN <<>> ELSE <<"quoting">>)
    \o (IF args.save_strategy \in {"APPEND", "OVERWRITE"}
        THEN <<>> ELSE <<"save_strategy">>)

\* CSV(directory=..., **args): the instance, or the validation error
CSV_init(d, args) ==
    LET errors == CSV_field_errors(d, args)
    IN  [ raised |-> IF errors = <<>> THEN "" ELSE "ValidationError",
          errors |-> errors,
          dir |-> d,
          self |-> [ kind |-> "csv", header |-> args.header,
                     save_strategy |-> args.save_strategy,
                     date_time_format |-> DATETIME_FORMAT_TSLOAD,
                     delimiter |-> args.delimiter,
                     escape_character |-> args.escape_character,
                     quoting |-> map_to_csv_literals(args.quoting) ] ]

\* JSON._ensure_directory_exists, run only on a value whose type validated
ensure_directory_exists(d) ==
    IF is_file(d) THEN [raised |-> "ValueError", dir |-> d]
    ELSE IF ~exists(d) THEN mkdir(d)
    ELSE [raised |-> "", dir |-> d]

\* the directory field of JSON: type first, then the after-validator
JSON_directory_field(d) ==
    IF directory_type(d) THEN ensure_directory_exists(d)
    ELSE [raised |-> "ValidationError", dir |-> d]

\* JSON(directory=..., **args)
JSON_init(d, args) ==
    LET directory == JSON_directory_field(d)
        errors == (IF directory.raised = "" THEN <<>> ELSE <<"directory">>)
                  \o (IF args.encoding \in {"None", "UTF-8"}
                      THEN <<>> ELSE <<"encoding">>)
    IN  [ raised |-> IF errors = <<>> THEN "" ELSE "ValidationError",
          errors |-> errors,
          dir |-> directory.dir,
          self |-> [kind |-> "json", encoding |-> args.encoding] ]

CSVArgs ==
    [ delimiter : Characters, escape_character : Characters,
      quoting : {"ALL", "MINIMAL", "NONE"}, header : BOOLEAN,
      save_strategy : {"APPEND", "OVERWRITE", "UPSERT"} ]
JSONArgs == [ encoding : {"None", "UTF-8", "latin-1"} ]

NoSyncer == [kind |-> "none"]

\* faulty variant: one dict shared by every instance
written_header_shared(wh) == wh
\* pydantic.PrivateAttr(default_factory=dict): an empty dict of its own for
\* each instance, whatever dict wh an earlier instance holds
written_header_new(wh) == [name \in Names |-> FALSE]

InitConstruct ==
    /\ syncer = NoSyncer
    /\ written_header = [name \in Names |-> FALSE]
    /\ fs = [p \in Paths |-> Absent]
    /\ fs0 = fs
    /\ hist = [f \in Names |-> <<>>]
    /\ last = [op |-> "none"]
    /\ dir \in DirStates
    /\ \A v \in {"gen", "life", "io", "ts", "cmd", "bag"} : Unused(v)
    /\ HostIdle

\* x = Class(directory=..., **args): x is bound only when no error is raised.
\* The history variables start over with a new instance.
Construct(init, kind, args) ==
    /\ dir' = init.dir
    /\ last' = [ op |-> "construct", kind |-> kind, args |-> args, dir0 |-> dir,
                 raised |-> init.raised, errors |-> init.errors ]
    /\ IF init.raised = ""
       THEN /\ syncer' = init.self
            /\ written_header' = written_header_new(written_header)
            /\ fs0' = fs
            /\ hist' = [name \in Names |-> <<>>]
            /\ life' = life + TotalDumps
       ELSE UNCHANGED <<syncer, written_header, fs0, hist, life>>
    /\ UNCHANGED <<fs, gen, io, ts, cmd, bag, venv, logs, exe>>

ConstructCSV(args) == Construct(CSV_init(dir, args), "csv", args)
ConstructJSON(args) == Construct(JSON_init(dir, args), "json", args)

NextConstruct ==
    \/ \E args \in CSVArgs : ConstructCSV(args)
    \/ \E args \in JSONArgs : ConstructJSON(args)

SpecConstruct == InitConstruct /\ [][NextConstruct]_vars

InSeq(x, seq) == \E i \in 1..Len(seq) : seq[i] = x

\* C11: constructing a CSV syncer succeeds only if delimiter and
\* escape_character are each exactly one character long; any other length,
\* the empty string included, fails with a validation error on that field.
C11_OnlyOneCharacterConstructs ==
    (last.op = "construct" /\ last.kind = "csv") =>
        /\ last.raised = "" =>
              Len(last.args.delimiter) = 1 /\ Len(last.args.escape_character) = 1
        /\ Len(last.args.delimiter) # 1 => InSeq("delimiter", last.errors)
        /\ Len(last.args.escape_character) # 1 =>
              InSeq("escape_character", last.errors)

\* C12: a construction that raises a validation error has done no I/O: the
\* directory path and every file are as they were before the attempt.
C12_FailedConstructionDoesNoIO ==
    [][(last'.op = "construct" /\ last'.raised # "") => (dir' = dir /\ fs' = fs)]_vars

\* C13: constructing a JSON syncer fails if the directory is a plain file,
\* creates the directory (with parents) if it does not exist, and so leaves
\* an existing directory after every construction that succeeds.
C13_DirectoryIsFileFailsElseCreated ==
    (last.op = "construct" /\ last.kind = "json") =>
        /\ is_file(last.dir0) => last.raised # ""
        /\ ~exists(last.dir0) => dir = "dir"
        /\ last.raised = "" => dir = "dir"

\* C14: the JSON syncer only overwrites whole files: a non-empty dump makes
\* load(name) return exactly its rows, and every other call (an empty dump,
\* a dump on another name, a load) leaves what load(name) returns unchanged;
\* so load returns the rows of the most recent non-empty dump.
C14_JSONLoadReturnsLastNonEmptyDump ==
    [][syncer.kind = "json" =>
        \A name \in Names :
            IF last'.op = "dump" /\ last'.name = name /\ last'.data # <<>>
            THEN JSON_load(syncer, fs', name) = [ret |-> last'.data, raised |-> ""]
            ELSE JSON_load(syncer, fs', name) = JSON_load(syncer, fs, name)]_vars

\* ---------------------------------------------------------------------
\* CSV syncers constructed one after the other on the same directory
\* ---------------------------------------------------------------------
RestartArgs ==
    [ delimiter : {<<"|">>}, escape_character : {<<"|">>}, quoting : {"MINIMAL"},
      header : BOOLEAN, save_strategy : {"APPEND", "OVERWRITE"} ]

\* the data the instances dump: one record, and two
RestartBatches == { <<RowText>>, <<RowNumber, RowText>> }

InitRestart ==
    /\ syncer = NoSyncer
    /\ written_header = [name \in Names |-> FALSE]
    /\ \E left \in LeftBehind("csv") :
          fs = [p \in Paths |-> IF p = <<"t", "csv">> THEN left ELSE Absent]
    /\ fs0 = fs
    /\ hist = [name \in Names |-> <<>>]
    /\ last = [op |-> "none"]
    /\ \A v \in {"gen", "dir", "life", "io", "ts", "cmd", "bag"} : Unused(v)
    /\ HostIdle

NextRestart ==
    \/ \E args \in RestartArgs : ConstructCSV(args)
    \/ \E filename \in Names, data \in RestartBatches \cup {<<>>} :
          CSVDump(filename, data)

SpecRestart == InitRestart /\ [][NextRestart]_vars

\* C15: a newly constructed CSV instance has no name marked as written,
\* whatever earlier instances dumped and whether or not the file exists; so
\* with APPEND and header=true its first non-empty dump onto an existing
\* non-empty file appends the header line again, then the records.
C15_NewInstanceStartsUnmarked ==
    /\ (last.op = "construct" /\ last.raised = "")
          => \A name \in Names : ~written_header_get(written_header, name)
    /\ ( /\ last.op = "dump" /\ last.data # <<>>
         /\ syncer.save_strategy = "APPEND" /\ syncer.header
         /\ Len(hist[last.name]) = 1
         /\ fs0[csv_path(last.name)].exists
         /\ fs0[csv_path(last.name)].content # <<>> )
       => /\ last.wrote_header
          /\ fs[csv_path(last.name)] =
                File(fs0[csv_path(last.name)].content
                     \o <<ExpectedHeader(last.data)>> \o ExpectedLines(last.data))

C15_Witness ==
    /\ life > 0
    /\ syncer.kind = "csv" /\ syncer.save_strategy = "APPEND" /\ syncer.header
    /\ fs0[csv_path("t")].content = << <<"a">>, <<"1">>, <<"x">> >>
    /\ last.op = "dump" /\ last.name = "t" /\ last.data = <<RowText>>
    /\ hist["t"] = << <<RowText>> >>
    /\ fs[csv_path("t")].content = << <<"a">>, <<"1">>, <<"x">>, <<"a">>, <<"x">> >>

\* ---------------------------------------------------------------------
\* The ThoughtSpot session object and the git-configuration commands
\* ---------------------------------------------------------------------

\* An object's attributes: name -> value, Missing where it has none.
Missing == Val("missing", "")
hasattr(obj, name) == obj.attr[name] # Missing

\* no session info
NoInfo == [user |-> "", release |-> ""]

\* what /session/info answers with
SessionInfos == { [user |-> "alice", release |-> "9.0"],
                  [user |-> "bob", release |-> "9.5"] }

\* ThoughtSpot.__init__
ThoughtSpot_init ==
    [ constructed |-> TRUE,
      attr |-> [ _logged_in_user |-> None, _platform |-> None,
                 _this_platform |-> Missing ],
      info |-> NoInfo ]      \* history: the session info of the last login

\* ThoughtSpot.me
ThoughtSpot_me(self) ==
    IF ~hasattr(self, "_logged_in_user")
    THEN [ret |-> None, raised |-> "RuntimeError"]
    ELSE [ret |-> self.attr["_logged_in_user"], raised |-> ""]

\* ThoughtSpot.platform
ThoughtSpot_platform(self) ==
    IF ~hasattr(self, "_this_platform")
    THEN [ret |-> None, raised |-> "RuntimeError"]
    ELSE [ret |-> self.attr["_this_platform"], raised |-> ""]

\* LoggedInUser.from_api_v1_session_info(d)
LoggedInUser(d) == [class |-> "LoggedInUser", username |-> d.user]
\* ThoughtSpotPlatform.from_api_v1_session_info(d)
ThoughtSpotPlatform(d) == [class |-> "ThoughtSpotPlatform", version |-> d.release]

\* What self.api.session_login(...) can do: return, or raise
\*   HTTPStatusError with a status code and a response body, or an
\*   httpx transport error.
LoginOutcomes ==
    { [exc |-> "", status |-> 200, body |-> "none"] }
    \cup [ exc : {"HTTPStatusError"}, status : {401}, body : {"debug", "no debug"} ]
    \cup [ exc : {"HTTPStatusError"}, status : {403, 500}, body : {"none"} ]
    \cup [ exc : {"ConnectError", "ConnectTimeout", "ReadTimeout"},
           status : {0}, body : {"none"} ]

\* What self.api.session_info() can do: return a response, or raise
InfoOutcomes ==
    [ exc : {""}, d : SessionInfos ]
    \cup [ exc : {"HTTPStatusError", "ReadTimeout"}, d : {NoInfo} ]

\* the except clauses of login(): the exception that leaves the try statement
login_except(o) ==
    IF o.exc = "HTTPStatusError"
    THEN IF o.status = 401
         THEN \* json.loads(e.response.json().get("debug", [])): a list is
              \* not text
              IF o.body = "debug" THEN "AuthenticationError" ELSE "TypeError"
         ELSE "HTTPStatusError"                                  \* raise e
    ELSE IF o.exc \in {"ConnectError", "ConnectTimeout"}
         THEN "ThoughtSpotUnavailable"
         ELSE o.exc

\* ThoughtSpot.login(): the object after the call and the exception raised
ThoughtSpot_login(self, o, i) ==
    IF o.exc # "" THEN [self |-> self, raised |-> login_except(o)]
    ELSE IF i.exc # "" THEN [self |-> self, raised |-> i.exc]
    ELSE [ self |-> [ self EXCEPT
                        !.attr["_logged_in_user"] = LoggedInUser(i.d),
                        !.attr["_this_platform"] = ThoughtSpotPlatform(i.d),
                        !.info = i.d ],
           raised |-> "" ]

\* A local variable that no assignment has bound
Unbound == "<unbound>"
Response == "<Response [200 OK]>"

\* What ts.api_v2.vcs_git_config_*(...) can do
ApiOutcomes == {"", "HTTPStatusError", "ConnectError"}

\* try: r = ts.api_v2.vcs_git_config_...(...)
\* except HTTPStatusError as e: print(e.response); print(e.response.content)
try_api_call(api) ==
    IF api = ""
    THEN [r |-> Response, called |-> TRUE, console |-> <<>>, raised |-> ""]
    ELSE IF api = "HTTPStatusError"
    THEN [ r |-> Unbound, called |-> TRUE,
           console |-> << "Error creating the configuration: <Response [400]>",
                          "<content>" >>,
           raised |-> "" ]
    ELSE [r |-> Unbound, called |-> TRUE, console |-> <<>>, raised |-> api]

\* the statement after the try statement reads the local r
read_r(t, line) ==
    IF t.raised # "" THEN t
    ELSE IF t.r = Unbound
    THEN [t EXCEPT !.raised = "UnboundLocalError"]
    ELSE [t EXCEPT !.console = Append(@, line)]

\* config_create
config_create(given, api) ==
    IF ~given
    THEN [ r |-> Unbound, called |-> FALSE, raised |-> "",
           console |-> <<"Must minimally provide the repository, username, and access_token.">> ]
    ELSE read_r(try_api_call(api), "New Configuration Details")

\* config_update
config_update(api) == read_r(try_api_call(api), "Updated Configuration Details")

\* config_search
config_search(api) == read_r(try_api_call(api), "Configuration Details")

\* config_delete
config_delete(org, api) ==
    LET t == try_api_call(api)
        warned == IF org = "None"
                  THEN <<"No org specified, the config in the current org will be deleted.">>
                  ELSE <<>>
    IN  read_r([t EXCEPT !.console = warned \o @], "Deleted the configuration")

Orgs == {"None", "org1"}

InitSession ==
    /\ syncer = NoSyncer
    /\ written_header = [name \in Names |-> FALSE]
    /\ fs = [p \in Paths |-> Absent]
    /\ fs0 = fs
    /\ hist = [name \in Names |-> <<>>]
    /\ last = [op |-> "none"]
    /\ ts = ThoughtSpot_init
    /\ \A v \in {"gen", "dir", "life", "io", "cmd", "bag"} : Unused(v)
    /\ HostIdle

\* one call of ts.login()
Login(o, i) ==
    /\ LET res == ThoughtSpot_login(ts, o, i)
       IN  /\ ts' = res.self
           /\ last' = [op |-> "login", raised |-> res.raised, outcome |-> o]
    /\ UNCHANGED <<syncer, written_header, fs, fs0, hist, gen, dir, life, io, cmd, bag, venv, logs, exe>>

\* one read of ts.me
Me ==
    /\ LET res == ThoughtSpot_me(ts)
       IN  last' = [op |-> "me", ret |-> res.ret, raised |-> res.raised]
    /\ UNCHANGED <<syncer, written_header, fs, fs0, hist, gen, dir, life, io, ts, cmd, bag, venv, logs, exe>>

\* one read of ts.platform
Platform ==
    /\ LET res == ThoughtSpot_platform(ts)
       IN  last' = [op |-> "platform", ret |-> res.ret, raised |-> res.raised]
    /\ UNCHANGED <<syncer, written_header, fs, fs0, hist, gen, dir, life, io, ts, cmd, bag, venv, logs, exe>>

\* one run of a git-configuration command, from its call to its exit
Command(name, org, api, res) ==
    /\ cmd' = [ pc |-> IF res.raised = "" THEN "returned" ELSE "raised",
                name |-> name, org |-> org, api |-> api,
                called |-> res.called,
                console |-> res.console, raised |-> res.raised ]
    /\ UNCHANGED <<syncer, written_header, fs, fs0, hist, last, gen, dir, life, io, ts, bag, venv, logs, exe>>

ConfigCreate(given, org, api) == Command("create", org, api, config_create(given, api))
ConfigUpdate(org, api) == Command("update", org, api, config_update(api))
ConfigSearch(org, api) == Command("search", org, api, config_search(api))
ConfigDelete(org, api) == Command("delete", org, api, config_delete(org, api))

NextSession ==
    \/ \E o \in LoginOutcomes, i \in InfoOutcomes : Login(o, i)
    \/ Me
    \/ Platform
    \/ \E given \in BOOLEAN, org \in Orgs, api \in ApiOutcomes :
          ConfigCreate(given, org, api)
    \/ \E org \in Orgs, api \in ApiOutcomes : ConfigUpdate(org, api)
    \/ \E org \in Orgs, api \in ApiOutcomes : ConfigSearch(org, api)
    \/ \E org \in Orgs, api \in ApiOutcomes : ConfigDelete(org, api)

SpecSession == InitSession /\ [][NextSession]_vars

\* C16: when the remote call of a git-configuration command raises an HTTP
\* status error, the command prints the response and its content and then
\* finishes; no exception leaves the command.
C16_HTTPErrorIsPrintedNotRaised ==
    (cmd.pc # "idle" /\ cmd.called /\ cmd.api = "HTTPStatusError") =>
        /\ cmd.pc = "returned" /\ cmd.raised = ""
        /\ \E k \in 1..(Len(cmd.console) - 1) :
              /\ cmd.console[k] = "Error creating the configuration: <Response [400]>"
              /\ cmd.console[k + 1] = "<content>"

\* C17: a login() that fails raises AuthenticationError or
\* ThoughtSpotUnavailable, whatever the status code of the HTTP error and
\* whatever the connection error or timeout.
C17_LoginFailsTyped ==
    (last.op = "login" /\ last.raised # "") =>
        last.raised \in {"AuthenticationError", "ThoughtSpotUnavailable"}

\* C20: while no login() has succeeded on the object, me and platform each
\* raise RuntimeError; after one has, they return the user and the platform
\* built from the session info.
C20_MeAndPlatformNeedLogin ==
    /\ last.op = "me" =>
          IF ts.info = NoInfo THEN last.raised = "RuntimeError"
          ELSE last.raised = "" /\ last.ret = LoggedInUser(ts.info)
    /\ last.op = "platform" =>
          IF ts.info = NoInfo THEN last.raised = "RuntimeError"
          ELSE last.raised = "" /\ last.ret = ThoughtSpotPlatform(ts.info)

\* ---------------------------------------------------------------------
\* utils.State: a bag of attributes kept in the dict self._state
\* ---------------------------------------------------------------------
DictV(items) == [k |-> "dict", items |-> items]

\* del d[key]
DelItem(d, key) ==
    LET keep == { i \in DOMAIN d : d[i][1] # key }
        pos(n) == CHOOSE i \in keep : Cardinality({ j \in keep : j <= i }) = n
    IN  [n \in 1..Cardinality(keep) |-> d[pos(n)]]

\* the attribute names the callers use; "_state" is the name of the
\* instance attribute that holds the dict
StateKeys == {"a", "b", "_state"}
StateValues == { Val("int", "1"), Val("int", "2") }

\* State.__init__(): super().__setattr__("_state", {})
State_init == <<>>

\* State.__setattr__(key, value): self._state[key] = value
State_setattr(state, key, value) ==
    [state |-> SetItem(state, StrV(key), value), raised |-> ""]

\* obj.key: the attributes of the instance are looked up first, and
\* State.__getattr__(key) is called only for a name not found there
State_getattr(state, key) ==
    IF key = "_state" THEN [ret |-> DictV(state), raised |-> ""]
    ELSE IF HasKey(state, StrV(key))
    THEN [ret |-> Get(state, StrV(key), None), raised |-> ""]
    ELSE [ret |-> None, raised |-> "AttributeError"]

\* State.__delattr__(key): del self._state[key]
State_delattr(state, key) ==
    IF HasKey(state, StrV(key))
    THEN [state |-> DelItem(state, StrV(key)), raised |-> ""]
    ELSE [state |-> state, raised |-> "KeyError"]

\* history: for each key the value last set and not deleted since
NotSet == Val("not set", "")

InitState ==
    /\ syncer = NoSyncer
    /\ written_header = [name \in Names |-> FALSE]
    /\ fs = [p \in Paths |-> Absent]
    /\ fs0 = fs
    /\ hist = [key \in StateKeys |-> NotSet]
    /\ last = [op |-> "none"]
    /\ bag = State_init
    /\ \A v \in {"gen", "dir", "life", "io", "ts", "cmd"} : Unused(v)
    /\ HostIdle

StateUnchanged ==
    UNCHANGED <<syncer, written_header, fs, fs0, gen, dir, life, io, ts, cmd,
                venv, logs, exe>>

\* state.key = value
SetAttr(key, value) ==
    /\ LET r == State_setattr(bag, key, value)
       IN  /\ bag' = r.state
           /\ last' = [op |-> "set", key |-> key, raised |-> r.raised,
                       ret |-> None, before |-> bag]
    /\ hist' = [hist EXCEPT ![key] = value]
    /\ StateUnchanged

\* state.key
GetAttr(key) ==
    /\ LET r == State_getattr(bag, key)
       IN  last' = [op |-> "get", key |-> key, raised |-> r.raised,
                    ret |-> r.ret, before |-> bag]
    /\ UNCHANGED <<bag, hist>>
    /\ StateUnchanged

\* del state.key
DelAttr(key) ==
    /\ LET r == State_delattr(bag, key)
       IN  /\ bag' = r.state
           /\ last' = [op |-> "del", key |-> key, raised |-> r.raised,
                       ret |-> None, before |-> bag]
           /\ hist' = IF r.raised = "" THEN [hist EXCEPT ![key] = NotSet] ELSE hist
    /\ StateUnchanged

NextState ==
    \E key \in StateKeys :
        \/ \E value \in StateValues : SetAttr(key, value)
        \/ GetAttr(key)
        \/ DelAttr(key)

SpecState == InitState /\ [][NextState]_vars

\* C18: getting a key returns the value last set for it and not deleted
\* since, and raises AttributeError when there is none; deleting a key that
\* is not stored raises and leaves the mapping as it was.
C18_StateGetsLastSetValue ==
    /\ last.op = "get" =>
          IF hist[last.key] # NotSet
          THEN last.raised = "" /\ last.ret = hist[last.key]
          ELSE last.raised = "AttributeError"
    /\ (last.op = "del" /\ ~HasKey(last.before, StrV(last.key))) =>
          (last.raised # "" /\ bag = last.before)

\* ---------------------------------------------------------------------
\* load and dump with storage failures, and the file handle they use
\* ---------------------------------------------------------------------

\* A call in progress: the filesystem and the header map so far, the handle
\* ("none" before open, then "open", then "closed"), how many times the file
\* was opened, the exception on its way out ("" for none), what was read.
Call(fsys, wh) ==
    [ fs |-> fsys, wh |-> wh, handle |-> "none", opens |-> 0, raised |-> "",
      ret |-> <<>>, wrote_header |-> FALSE ]

\* path.open(mode=mode, ...): fails with the storage, or for a file that is
\* not there to be read; otherwise the handle is open, and mode "w" or "a"
\* has created or truncated the file
io_open(c, path, mode, failing) ==
    IF failing THEN [c EXCEPT !.raised = "OSError"]
    ELSE IF mode = "r" /\ ~c.fs[path].exists
    THEN [c EXCEPT !.raised = "FileNotFoundError"]
    ELSE [c EXCEPT !.handle = "open", !.opens = @ + 1,
                   !.fs[path] = IF mode = "r" THEN @
                                ELSE File(open_for_write(@, mode))]

\* a write through the handle; a statement after a raise is not executed
io_write(c, path, lines, failing) ==
    IF c.raised # "" THEN c
    ELSE IF failing THEN [c EXCEPT !.raised = "OSError"]
    ELSE [c EXCEPT !.fs[path] = File(@.content \o lines)]

\* a read of the whole file through the handle
io_read(c, path, failing) ==
    IF c.raised # "" THEN c
    ELSE IF failing THEN [c EXCEPT !.raised = "OSError"]
    ELSE [c EXCEPT !.ret = c.fs[path].content]

\* faulty variant: the handle is closed only when the body did not raise
with_exit_leaks_on_error(c, failing) ==
    IF c.handle # "open" \/ c.raised # "" THEN c
    ELSE [c EXCEPT !.handle = "closed",
                   !.raised = IF failing THEN "OSError" ELSE ""]

\* the end of `with path.open(...) as f:`: f.close() runs whether the body
\* raised or not; an exception of the body is the one that propagates
with_exit(c, failing) ==
    IF c.handle # "open" THEN c
    ELSE [c EXCEPT !.handle = "closed",
                   !.raised = IF @ # "" THEN @
                              ELSE IF failing THEN "OSError" ELSE ""]

\* CSV.dump(filename, data=data) on a storage that fails at step fault
CSV_dump_io(self, wh, fsys, filename, data, fault) ==
    IF data = <<>> THEN Call(fsys, wh)
    ELSE
        LET path == csv_path(filename)
            header == Keys(data[1])
            mode == open_mode(self.save_strategy)
            opened == io_open(Call(fsys, wh), path, mode, fault = "open")
            emit == emits_header(self, wh, filename)
            marked == [opened EXCEPT !.wh[filename] = TRUE]
            headed == io_write(marked, path, writeheader(header),
                               fault = "writeheader")
            c1 == IF opened.raised # "" \/ ~emit THEN opened
                  ELSE [headed EXCEPT !.wrote_header = headed.raised = ""]
            c2 == io_write(c1, path,
                           writerows(header, data, self.date_time_format),
                           fault = "writerows")
        IN  with_exit(c2, fault = "close")

\* CSV.load(filename) on a storage that fails at step fault
CSV_load_io(self, wh, fsys, filename, fault) ==
    LET path == csv_path(filename)
    IN  IF ~fsys[path].exists THEN Call(fsys, wh)
        ELSE LET opened == io_open(Call(fsys, wh), path, "r", fault = "open")
                 read == io_read(opened, path, fault = "read")
                 data == IF read.raised = ""
                         THEN [read EXCEPT !.ret = DictReader(@)] ELSE read
             IN  with_exit(data, fault = "close")

\* pathlib.Path.write_text(text): with self.open(mode="w") as f: f.write(text)
write_text(c, path, text, fault) ==
    with_exit(io_write(io_open(c, path, "w", fault = "open"), path, text,
                       fault = "write"),
              fault = "close")

\* pathlib.Path.read_text(): with self.open(mode="r") as f: return f.read()
read_text(c, path, fault) ==
    with_exit(io_read(io_open(c, path, "r", fault = "open"), path,
                      fault = "read"),
              fault = "close")

\* JSON.dump(filename, data=data) on a storage that fails at step fault
JSON_dump_io(self, wh, fsys, filename, data, fault) ==
    IF data = <<>> THEN Call(fsys, wh)
    ELSE IF ~json_serializable(data)
    THEN [Call(fsys, wh) EXCEPT !.raised = "TypeError"]
    ELSE write_text(Call(fsys, wh), make_filename(filename), json_dumps(data), fault)

\* JSON.load(filename) on a storage that fails at step fault
JSON_load_io(self, wh, fsys, filename, fault) ==
    LET text == read_text(Call(fsys, wh), make_filename(filename), fault)
    IN  IF text.raised = "" /\ text.ret # <<>>
        THEN [text EXCEPT !.ret = json_loads(@)] ELSE text

\* where the storage fails during a call
CSVDumpFaults == {"none", "open", "writeheader", "writerows", "close"}
JSONDumpFaults == {"none", "open", "write", "close"}
LoadFaults == {"none", "open", "read"}

\* the name the calls are made on while the storage may fail
IONames == {"t"}

\* the data dumped while the storage may fail
IOBatches == { <<RowText>>, <<RowDateTime>> }

\* one call, from its start to its return or raise
IOCall(op, filename, data, fault, c) ==
    /\ fs' = c.fs
    /\ written_header' = c.wh
    /\ io' = [ pc |-> IF c.raised = "" THEN "returned" ELSE "raised",
               dumps |-> IF data # <<>> THEN io.dumps + 1 ELSE io.dumps,
               op |-> op, name |-> filename, fault |-> fault,
               opens |-> c.opens, handle |-> c.handle, raised |-> c.raised ]
    /\ last' = IF op = "dump"
               THEN [op |-> "dump", name |-> filename, data |-> data,
                     raised |-> c.raised, wrote_header |-> c.wrote_header]
               ELSE [op |-> "load", name |-> filename, ret |-> c.ret,
                     raised |-> c.raised]
    /\ hist' = IF op = "dump" /\ data # <<>> /\ c.raised = ""
               THEN [hist EXCEPT ![filename] = Append(@, data)] ELSE hist
    /\ UNCHANGED <<syncer, fs0, gen, dir, life, ts, cmd, bag, venv, logs, exe>>

CSVDumpIO(filename, data, fault) ==
    /\ syncer.kind = "csv"
    /\ data # <<>> => io.dumps < MaxDumps
    /\ IOCall("dump", filename, data, fault,
              CSV_dump_io(syncer, written_header, fs, filename, data, fault))

CSVLoadIO(filename, fault) ==
    /\ syncer.kind = "csv"
    /\ IOCall("load", filename, <<>>, fault,
              CSV_load_io(syncer, written_header, fs, filename, fault))

JSONDumpIO(filename, data, fault) ==
    /\ syncer.kind = "json"
    /\ data # <<>> => io.dumps < MaxDumps
    /\ IOCall("dump", filename, data, fault,
              JSON_dump_io(syncer, written_header, fs, filename, data, fault))

JSONLoadIO(filename, fault) ==
    /\ syncer.kind = "json"
    /\ IOCall("load", filename, <<>>, fault,
              JSON_load_io(syncer, written_header, fs, filename, fault))

NextIO ==
    \E filename \in IONames :
        \/ \E data \in IOBatches \cup {<<>>}, fault \in CSVDumpFaults :
              CSVDumpIO(filename, data, fault)
        \/ \E fault \in LoadFaults : CSVLoadIO(filename, fault)
        \/ \E data \in IOBatches \cup {<<>>}, fault \in JSONDumpFaults :
              JSONDumpIO(filename, data, fault)
        \/ \E fault \in LoadFaults : JSONLoadIO(filename, fault)

\* as Init, and no call made yet; io.dumps counts the non-empty dump calls
InitIO ==
    /\ syncer \in CSVSyncers \cup JSONSyncers
    /\ written_header = [name \in Names |-> FALSE]
    /\ \E left \in LeftBehind(syncer.kind) :
          fs = [p \in Paths |-> IF p = <<"t", syncer.kind>> THEN left ELSE Absent]
    /\ fs0 = fs
    /\ hist = [name \in Names |-> <<>>]
    /\ last = [op |-> "none"]
    /\ io = [pc |-> "idle", dumps |-> 0]
    /\ \A v \in {"gen", "dir", "life", "ts", "cmd", "bag"} : Unused(v)
    /\ HostIdle

SpecIO == InitIO /\ [][NextIO]_vars

\* C19: a load or dump call opens the target file at most once, and when it
\* returns or raises, also on a storage failure during the call, no handle
\* it opened is still open.
C19_HandleClosedWhenCallEnds ==
    io.pc \in {"returned", "raised"} =>
        /\ io.opens <= 1
        /\ io.handle # "open"
        /\ io.opens = 1 <=> io.handle = "closed"

C19_Witness ==
    /\ io.pc = "raised" /\ io.op = "dump" /\ io.fault = "writerows"
    /\ io.raised = "OSError" /\ io.opens = 1 /\ io.handle = "closed"

\* ---------------------------------------------------------------------
\* The installer: Activator.make_env around the body of Activator._install
\* ---------------------------------------------------------------------

\* if self.venv_dir.exists(): the existing environment is moved to .save,
\* a .save already there being removed first
save_existing(v) ==
    IF v.env.exists THEN [v EXCEPT !.save = v.env, !.env = NoDir] ELSE v

\* What VirtualEnvironment.make(self.venv_dir) can do: make the environment,
\* or raise, with a partial directory made or with nothing made yet.
MakeOutcomes ==
    { [exc |-> "", made |-> "complete"] }
    \cup [ exc : {"Exception", "KeyboardInterrupt"}, made : {"partial", "nothing"} ]

\* What the body of the with statement can do (pip, the scripts, the PATH)
BodyOutcomes == {"", "Exception", "KeyboardInterrupt"}

\* VirtualEnvironment.make(self.venv_dir), as the run numbered n
VirtualEnvironment_make(v, o, n) ==
    [v EXCEPT !.env = CASE o.made = "complete" -> EnvDir(n, TRUE)
                        [] o.made = "partial" -> EnvDir(n, FALSE)
                        [] OTHER -> NoDir]

\* faulty variant: the partial environment is removed, nothing is restored
except_Exception_no_restore(v) == [v EXCEPT !.env = NoDir]

\* except Exception as e: rmtree of the partial environment if it exists,
\* then .save moved back if it exists
except_Exception(v) ==
    LET removed == [v EXCEPT !.env = NoDir]
    IN  IF removed.save.exists
        THEN [removed EXCEPT !.env = removed.save, !.save = NoDir]
        ELSE removed

\* after the try statement: shutil.rmtree(env_path_saved, ignore_errors=True)
remove_saved(v) == [v EXCEPT !.save = NoDir]

\* with self.make_env(version) as env: <body>.  `except Exception` catches
\* the exceptions of class Exception, thrown by make or thrown into the
\* generator by the body; a KeyboardInterrupt passes it by.
make_env(v, o, b) ==
    LET n == v.runs + 1
        saved == save_existing([v EXCEPT !.runs = n])
        made == VirtualEnvironment_make(saved, o, n)
        exc == IF o.exc # "" THEN o.exc ELSE b
    IN  IF exc = "" THEN [venv |-> remove_saved(made), raised |-> ""]
        ELSE IF exc = "Exception"
        THEN [venv |-> except_Exception(made), raised |-> exc]
        ELSE [venv |-> made, raised |-> exc]

InitInstall ==
    /\ syncer = NoSyncer
    /\ written_header = [name \in Names |-> FALSE]
    /\ fs = [p \in Paths |-> Absent]
    /\ fs0 = fs
    /\ hist = [name \in Names |-> <<>>]
    /\ last = [op |-> "none"]
    /\ \E first \in {NoDir, EnvDir(0, TRUE)} :
          venv = [env |-> first, save |-> NoDir, runs |-> 0]
    /\ logs = NoLogs /\ exe = NoExe
    /\ \A v \in {"gen", "dir", "life", "io", "ts", "cmd", "bag"} : Unused(v)

\* one run of Activator._install: make_env and the body of its with statement
MakeEnv(o, b) ==
    /\ venv.runs < MaxInstalls
    /\ LET r == make_env(venv, o, b)
       IN  /\ venv' = r.venv
           /\ last' = [ op |-> "make_env", before |-> venv, make |-> o, body |-> b,
                        raised |-> r.raised ]
    /\ UNCHANGED <<syncer, written_header, fs, fs0, hist, gen, dir, life, io, ts,
                   cmd, bag, logs, exe>>

NextInstall == \E o \in MakeOutcomes, b \in BodyOutcomes : MakeEnv(o, b)

SpecInstall == InitInstall /\ [][NextInstall]_vars

\* C21 as stated: when an Exception is raised in make or in the body, at exit
\* the environment directory holds what it held before the call (nothing if
\* it held nothing), no .save is left and the exception propagates; when
\* nothing is raised, it holds the new environment and no .save is left.
C21_FailedInstallRestoresBefore ==
    last.op = "make_env" =>
        /\ last.raised = "Exception" =>
              (venv.env = last.before.env /\ ~venv.save.exists)
        /\ (last.make.exc = "Exception"
              \/ (last.make.exc = "" /\ last.body = "Exception"))
              => last.raised = "Exception"
        /\ last.raised = "" =>
              (venv.env = EnvDir(venv.runs, TRUE) /\ ~venv.save.exists)

\* C21 amended: as stated, except that when the environment directory held
\* nothing before the call and a .save directory was there (left by an
\* interrupted run), the failed call leaves the environment directory holding
\* what .save held.
C21_FailedInstallRestoresBeforeOrSaved ==
    last.op = "make_env" =>
        /\ last.raised = "Exception" =>
              /\ venv.env = IF last.before.env.exists THEN last.before.env
                            ELSE last.before.save
              /\ ~venv.save.exists
        /\ (last.make.exc = "Exception"
              \/ (last.make.exc = "" /\ last.body = "Exception"))
              => last.raised = "Exception"
        /\ last.raised = "" =>
              (venv.env = EnvDir(venv.runs, TRUE) /\ ~venv.save.exists)

C21_Witness ==
    /\ last.op = "make_env" /\ last.raised = "Exception"
    /\ last.make.exc = "" /\ last.body = "Exception"
    /\ last.before.env = EnvDir(1, TRUE)
    /\ venv.env = EnvDir(1, TRUE) /\ ~venv.save.exists

\* ---------------------------------------------------------------------
\* Rotation of the log files
\* ---------------------------------------------------------------------

\* sorted(logs_dir.iterdir(), reverse=True): the entries, greatest name first
RECURSIVE sorted_reverse(_)
sorted_reverse(entries) ==
    IF entries = {} THEN <<>>
    ELSE LET top == CHOOSE e \in entries : \A o \in entries : o <= e
         IN  <<top>> \o sorted_reverse(entries \ {top})

\* _rotate_logs(n_files_to_keep): the entries left in the directory.
\* enumerate counts from 0, so lifo[i] here has idx = i - 1.
rotate_logs(entries, n_files_to_keep) ==
    LET lifo == sorted_reverse(entries)
        unlinked == { lifo[i] : i \in { j \in DOMAIN lifo : j - 1 > n_files_to_keep } }
    IN  entries \ unlinked

InitLogs ==
    /\ syncer = NoSyncer
    /\ written_header = [name \in Names |-> FALSE]
    /\ fs = [p \in Paths |-> Absent]
    /\ fs0 = fs
    /\ hist = [name \in Names |-> <<>>]
    /\ last = [op |-> "none"]
    /\ logs \in SUBSET (1..MaxLogs)
    /\ venv = NoEnv /\ exe = NoExe
    /\ \A v \in {"gen", "dir", "life", "io", "ts", "cmd", "bag"} : Unused(v)

\* one call of _rotate_logs
RotateLogs(n) ==
    /\ logs' = rotate_logs(logs, n)
    /\ last' = [op |-> "rotate", n |-> n, before |-> logs]
    /\ UNCHANGED <<syncer, written_header, fs, fs0, hist, gen, dir, life, io, ts,
                   cmd, bag, venv, exe>>

\* a run of the tool writes a log file of its own
WriteLog(name) ==
    /\ name \notin logs
    /\ logs' = logs \cup {name}
    /\ last' = [op |-> "log", n |-> 0, before |-> logs]
    /\ UNCHANGED <<syncer, written_header, fs, fs0, hist, gen, dir, life, io, ts,
                   cmd, bag, venv, exe>>

NextLogs ==
    \/ \E n \in 0..MaxKeep : RotateLogs(n)
    \/ \E name \in 1..MaxLogs : WriteLog(name)

SpecLogs == InitLogs /\ [][NextLogs]_vars

\* C22: after _rotate_logs(n) the directory holds at most n entries: the n
\* greatest in name order of those there before (all of them if fewer), every
\* other entry deleted.
C22_RotateKeepsLastN ==
    last.op = "rotate" =>
        /\ Cardinality(logs) <= last.n
        /\ logs \subseteq last.before
        /\ \A kept \in logs : \A gone \in last.before \ logs : gone < kept
        /\ Cardinality(last.before) >= last.n => Cardinality(logs) = last.n

\* ---------------------------------------------------------------------
\* The installer's scripts in the system executable directory
\* ---------------------------------------------------------------------

\* entrypoints_from_whl(...): the scripts of the wheel, in order
Scripts == <<"cs_tools", "cstools">>

\* What a path of the system executable directory is: nothing, a regular
\* file with some content, or a symlink to some path.  "source" stands for
\* the script of the same name in the environment's bin directory, "self"
\* for the path itself, "old" for content that is not the script's.
NoEntry == [kind |-> "absent", of |-> ""]
RegularFile(content) == [kind |-> "file", of |-> content]
Symlink(to) == [kind |-> "symlink", of |-> to]

\* Path.exists() follows symlinks: a symlink to itself does not exist
path_exists(t) == t.kind = "file" \/ (t.kind = "symlink" /\ t.of = "source")

\* target_script.symlink_to(target_script): the link made points at the
\* target path itself.  It raises OSError when something is at the path
\* (FileExistsError) or when the user may not make symlinks.
symlink_to_target(t, permitted) ==
    IF t.kind # "absent" \/ ~permitted
    THEN [t |-> t, raised |-> "OSError"]
    ELSE [t |-> Symlink("self"), raised |-> ""]

\* shutil.copy(source_script, target_script): writes through a symlink at
\* the target, which fails on a symlink to itself
copy_source(t) ==
    IF t.kind = "symlink" /\ t.of = "self"
    THEN [t |-> t, raised |-> "OSError"]
    ELSE IF t.kind = "symlink" THEN [t |-> t, raised |-> ""]
    ELSE [t |-> RegularFile("source"), raised |-> ""]

\* the body of the loop of _symlink_exe, for one script
symlink_one(t, permitted) ==
    LET unlinked == IF path_exists(t) THEN NoEntry ELSE t
        linked == symlink_to_target(unlinked, permitted)
    IN  IF linked.raised = "" THEN linked ELSE copy_source(unlinked)

ScriptNames == { Scripts[i] : i \in DOMAIN Scripts }

\* if WINDOWS: script += ".exe".  A file name is <<stem, suffix>> here.
script_name(script, windows) == <<script, IF windows THEN ".exe" ELSE "">>
ScriptPaths == ScriptNames \X {"", ".exe"}

\* Activator._symlink_exe(env): script after script, up to the first raise;
\* permitted says for each script whether a symlink may be made at its path
RECURSIVE symlink_exe(_, _, _)
symlink_exe(self, permitted, i) ==
    IF i > Len(Scripts) THEN [exe |-> self, raised |-> ""]
    ELSE LET script == script_name(Scripts[i], self.windows)
             r == symlink_one(self.at[script], permitted[Scripts[i]])
         IN  IF r.raised # ""
             THEN [exe |-> self, raised |-> r.raised]
             ELSE symlink_exe([self EXCEPT !.at[script] = r.t], permitted, i + 1)

InitExe ==
    /\ syncer = NoSyncer
    /\ written_header = [name \in Names |-> FALSE]
    /\ fs = [p \in Paths |-> Absent]
    /\ fs0 = fs
    /\ hist = [name \in Names |-> <<>>]
    /\ last = [op |-> "none"]
    /\ \E windows \in BOOLEAN :
       \E found \in [ScriptNames -> {NoEntry, RegularFile("old"),
                                     RegularFile("source"), Symlink("source")}] :
          exe = [ windows |-> windows,
                  at |-> [p \in ScriptPaths |->
                            IF p = script_name(p[1], windows)
                            THEN found[p[1]] ELSE NoEntry] ]
    /\ venv = NoEnv /\ logs = NoLogs
    /\ \A v \in {"gen", "dir", "life", "io", "ts", "cmd", "bag"} : Unused(v)

\* one call of Activator._symlink_exe
SymlinkExe(permitted) ==
    /\ LET r == symlink_exe(exe, permitted, 1)
       IN  /\ exe' = r.exe
           /\ last' = [ op |-> "symlink_exe", permitted |-> permitted,
                        before |-> exe, raised |-> r.raised ]
    /\ UNCHANGED <<syncer, written_header, fs, fs0, hist, gen, dir, life, io, ts,
                   cmd, bag, venv, logs>>

NextExe == \E permitted \in [ScriptNames -> BOOLEAN] : SymlinkExe(permitted)

SpecExe == InitExe /\ [][NextExe]_vars

\* C23: after _symlink_exe returns, the path of every entry-point script in
\* the system executable directory is a symlink to, or a copy of, the script
\* of that name in the new environment's bin directory.
C23_ScriptsPointToEnvironment ==
    (last.op = "symlink_exe" /\ last.raised = "") =>
        \A script \in ScriptNames :
            exe.at[script_name(script, exe.windows)]
                \in {Symlink("source"), RegularFile("source")}

\* C24: a CSV dump that meets a storage failure raises it, and the header map
\* becomes true for a name only in a call that wrote the header row to that
\* name's file; so whenever the map holds true the header has been written
\* by this instance, and a retry after a failed dump still emits it.
C24_HeaderMarkedOnlyWhenWritten ==
    [][syncer.kind = "csv" =>
        /\ \A name \in Names :
              (~written_header_get(written_header, name)
                  /\ written_header_get(written_header', name))
              => (last'.op = "dump" /\ last'.name = name /\ last'.wrote_header)
        /\ (io'.pc = "raised" /\ io'.op = "dump") => last'.raised = io'.raised]_vars

\* ---------------------------------------------------------------------
\* A CSV syncer on a directory that may not be there
\* ---------------------------------------------------------------------

\* CSV.dump(filename, data=data) when the directory is d on disk:
\* path.open(mode=mode) makes the file, never the directory that holds it
CSV_dump_at(d, self, wh, fsys, filename, data) ==
    IF data # <<>> /\ ~DirectoryPath(d)
    THEN [ fs |-> fsys, written_header |-> wh, wrote_header |-> FALSE,
           raised |-> IF is_file(d) THEN "NotADirectoryError"
                      ELSE "FileNotFoundError" ]
    ELSE CSV_dump(self, wh, fsys, filename, data)

\* CSV.load(filename) when the directory is d on disk: path.exists() is
\* False for every path under a directory that is not there
CSV_load_at(d, self, fsys, filename) ==
    IF ~DirectoryPath(d) THEN [ret |-> <<>>, raised |-> ""]
    ELSE CSV_load(self, fsys, filename)

InitNewDir ==
    /\ syncer = NoSyncer
    /\ written_header = [name \in Names |-> FALSE]
    /\ fs = [p \in Paths |-> Absent]
    /\ fs0 = fs
    /\ hist = [name \in Names |-> <<>>]
    /\ last = [op |-> "none"]
    /\ dir \in {"dir", "new"}
    /\ \A v \in {"gen", "life", "io", "ts", "cmd", "bag"} : Unused(v)
    /\ HostIdle

\* one call of CSV.dump on the constructed instance
CSVDumpAt(filename, data) ==
    /\ syncer.kind = "csv"
    /\ data # <<>> => life + TotalDumps < MaxDumps
    /\ LET r == CSV_dump_at(dir, syncer, written_header, fs, filename, data)
       IN  /\ fs' = r.fs
           /\ written_header' = r.written_header
           /\ hist' = IF data # <<>> /\ r.raised = ""
                      THEN [hist EXCEPT ![filename] = Append(@, data)] ELSE hist
           /\ last' = [op |-> "dump", name |-> filename, data |-> data,
                       raised |-> r.raised, wrote_header |-> r.wrote_header]
    /\ UNCHANGED <<syncer, fs0, gen>>
    /\ UNCHANGED aux

\* one call of CSV.load on the constructed instance
CSVLoadAt(filename) ==
    /\ syncer.kind = "csv"
    /\ LET r == CSV_load_at(dir, syncer, fs, filename)
       IN  last' = [op |-> "load", name |-> filename, ret |-> r.ret, raised |-> r.raised]
    /\ UNCHANGED <<syncer, written_header, fs, fs0, hist, gen>>
    /\ UNCHANGED aux

NextNewDir ==
    \/ \E args \in RestartArgs : ConstructCSV(args)
    \/ \E filename \in IONames, data \in RestartBatches \cup {<<>>} :
          CSVDumpAt(filename, data)
    \/ \E filename \in IONames : CSVLoadAt(filename)

SpecNewDir == InitNewDir /\ [][NextNewDir]_vars

\* C25: on a CSV syncer constructed with a directory that did not exist, a
\* non-empty dump creates what is missing and writes the file of the name,
\* and a load before any dump returns an empty sequence.
C25_DumpCreatesMissingDirectory ==
    syncer.kind = "csv" =>
        /\ (last.op = "dump" /\ last.data # <<>>) =>
              /\ last.raised = ""
              /\ DirectoryPath(dir)
              /\ fs[csv_path(last.name)].exists
        /\ (last.op = "load" /\ life + TotalDumps = 0) =>
              (last.raised = "" /\ last.ret = <<>>)

====
